---- MODULE Spec2Model ----
(***************************************************************************)
(* Model of the Todo backend (src/server/app): the users and tasks tables, *)
(* the persistence accessors (crud/), the user and task services           *)
(* (services/), the token utility (core/security.py) and the task routes   *)
(* (controllers/task.py).                                                  *)
(*                                                                         *)
(* The backing store is the PostgreSQL database of database.py: ids come   *)
(* from sequences, NOT NULL / FOREIGN KEY violations and negative          *)
(* OFFSET/LIMIT abort the statement (the request ends in a 500), and a     *)
(* SELECT without ORDER BY returns rows in the table's physical order.     *)
(* Python None is the empty tuple and a present value v is <<v>>, so that  *)
(* a nullable attribute always compares with values of its own type.       *)
(***************************************************************************)
EXTENDS Integers, Sequences, FiniteSets, TLC

VARIABLES users, tasks, user_id_seq, task_id_seq, salt_seq, now, resp, inflight

vars == <<users, tasks, user_id_seq, task_id_seq, salt_seq, now, resp, inflight>>

--------------------------------------------------------------------------
(* Bounds of the model *)

MaxUserId == 2
MaxTaskId == 2
MaxTime == 1
MaxSkip == 1
MaxLimit == 2
MaxRequests == 2

(* Program constants *)

ACCESS_TOKEN_EXPIRE_MINUTES == 60
SECRET_KEY == "CHANGE_ME_SECRET_KEY"

HTTP_200_OK == 200
HTTP_201_CREATED == 201
HTTP_204_NO_CONTENT == 204
HTTP_400_BAD_REQUEST == 400
HTTP_401_UNAUTHORIZED == 401
HTTP_403_FORBIDDEN == 403
HTTP_404_NOT_FOUND == 404
HTTP_500_INTERNAL_SERVER_ERROR == 500

--------------------------------------------------------------------------
(* Values *)

None == <<>>
Some(v) == <<v>>

Emails == {"a@x.com", "b@x.com"}
Passwords == {"password1"}
WrongPasswords == {"password2"}

Titles == {"T1", "T2"}
Descriptions == {"d1"}
(* due dates without a time zone, as the column (DateTime) holds them *)
DueDates == {"2025-01-01"}

(* passwords longer than bcrypt's 72 bytes that differ in the 73rd only
   (UserCreate.password has a minimum length and no maximum) *)
Prefix72 == "aaaaaaaaaaaaaaaaaaaaaaaaaaaaaaaaaaaaaaaaaaaaaaaaaaaaaaaaaaaaaaaaaaaaaaaa"
LongPasswords == {Prefix72 \o "1", Prefix72 \o "2"}

OptOf(S) == {None} \cup {Some(v) : v \in S}

(* ids a request may name: the ids the sequences can hand out, and one more *)
UserIdInputs == 1 .. (MaxUserId + 1)
TaskIdInputs == 1 .. (MaxTaskId + 1)
SkipInputs == (-1) .. MaxSkip
LimitInputs == (-1) .. MaxLimit

TaskFields == {"title", "description", "due_date", "completed"}

(* TaskCreate(...).model_dump(): title is required, the others default to None *)
TaskCreate == [title : {Some(t) : t \in Titles},
               description : OptOf(Descriptions),
               due_date : OptOf(DueDates)]

(* TaskUpdate(...).model_dump(exclude_unset=True): a dict holding exactly
   the fields the payload names, each with its value or None *)
TaskUpdateAllSet == [title : OptOf(Titles),
                     description : OptOf(Descriptions),
                     due_date : OptOf(DueDates),
                     completed : OptOf(BOOLEAN)]
TaskUpdate == {[f \in F |-> d[f]] : d \in TaskUpdateAllSet, F \in SUBSET TaskFields}

EmptyUpdate == [f \in {} |-> None]

(* TaskUpdate built from a request body whose extra keys are kept
   (extra = "allow") *)
TaskUpdateFromBody_extra_kept(body) == body

(* the TaskUpdate FastAPI builds from the JSON body of PUT /tasks/{id}, as
   model_dump(exclude_unset=True) gives it back: the model has no extra
   configuration, so keys that are not its fields are dropped *)
TaskUpdateFromBody(body) == [f \in DOMAIN body \cap TaskFields |-> body[f]]

--------------------------------------------------------------------------
(* Sequence helpers *)

RECURSIVE SelectRows(_, _, _)
SelectRows(rows, i, keep) ==
    IF i > Len(rows) THEN <<>>
    ELSE IF rows[i] \in keep
         THEN <<rows[i]>> \o SelectRows(rows, i + 1, keep)
         ELSE SelectRows(rows, i + 1, keep)

Rows(table) == {table[i] : i \in 1 .. Len(table)}

Min(a, b) == IF a < b THEN a ELSE b

Ids(rows) == {rows[i].id : i \in 1 .. Len(rows)}

--------------------------------------------------------------------------
(* core/security.py: password hashing *)

(* CryptContext(schemes=["bcrypt"]): bcrypt keys on the first 72 bytes of
   the password and passlib cuts a longer one down to them without an error *)
BCRYPT_MAX_BYTES == 72

Truncated(password) == SubSeq(password, 1, Min(Len(password), BCRYPT_MAX_BYTES))

(* pwd_context.hash: a bcrypt digest carries the salt it was made with; each
   call draws a new salt *)
get_password_hash(password, salt) == [secret |-> Truncated(password), salt |-> salt]

(* pwd_context.verify: hashes plain with the digest's salt and compares *)
verify_password(plain, hashed) == get_password_hash(plain, hashed.salt) = hashed

--------------------------------------------------------------------------
(* core/security.py: tokens.  A token is its claims and the key that signed
   it; exp and the clock count minutes *)

Digits == <<"0", "1", "2", "3", "4", "5", "6", "7", "8", "9">>

(* str(user.id) *)
str(n) == Digits[n + 1]

(* int(user_id): None stands for ValueError *)
int(s) ==
    IF \E n \in 0 .. 9 : Digits[n + 1] = s
    THEN Some(CHOOSE n \in 0 .. 9 : Digits[n + 1] = s)
    ELSE None

(* create_access_token stamping the time of issue as the expiry *)
create_access_token_no_lifetime(sub, time) ==
    [sub |-> Some(sub), exp |-> time, key |-> SECRET_KEY]

create_access_token(sub, time) ==
    [sub |-> Some(sub), exp |-> time + ACCESS_TOKEN_EXPIRE_MINUTES, key |-> SECRET_KEY]

(* decode_access_token without the test of the subject *)
decode_access_token_no_sub_check(token, time) ==
    IF token.key # SECRET_KEY THEN [error |-> TRUE, sub |-> ""]
    ELSE IF token.exp < time THEN [error |-> TRUE, sub |-> ""]
    ELSE IF token.sub = None THEN [error |-> FALSE, sub |-> ""]
    ELSE [error |-> FALSE, sub |-> token.sub[1]]

(* jwt.decode checks the signature, then exp; then the subject must be there
   and not empty.  error stands for JWTError *)
decode_access_token(token, time) ==
    IF token.key # SECRET_KEY THEN [error |-> TRUE, sub |-> ""]
    ELSE IF token.exp < time THEN [error |-> TRUE, sub |-> ""]
    ELSE IF token.sub = None \/ token.sub = Some("") THEN [error |-> TRUE, sub |-> ""]
    ELSE [error |-> FALSE, sub |-> token.sub[1]]

(* get_user_by_id is a coroutine function and get_current_user calls it
   without await: what it gets is a coroutine object, which is true in a
   condition and has no attribute id *)
Coroutine(name, arg) == [coroutine |-> name, arg |-> arg]

Truthy(obj) == obj # None

HasAttr(obj, name) == name \in DOMAIN obj

get_current_user(token, time) ==
    LET d == decode_access_token(token, time)
        user == Some(Coroutine("get_user_by_id", d.sub))
    IN  IF d.error THEN [status |-> HTTP_401_UNAUTHORIZED, user |-> None]
        ELSE IF ~Truthy(user) THEN [status |-> HTTP_401_UNAUTHORIZED, user |-> None]
        ELSE [status |-> HTTP_200_OK, user |-> user]

--------------------------------------------------------------------------
(* crud/user.py *)

get_user_by_email(U, email) ==
    LET m == {u \in Rows(U) : u.email = email}
    IN  IF m = {} THEN None ELSE Some(CHOOSE u \in m : TRUE)

get_user_by_id(U, user_id) ==
    LET m == {u \in Rows(U) : u.id = user_id}
    IN  IF m = {} THEN None ELSE Some(CHOOSE u \in m : TRUE)

(* create_user on a table without the unique index on email *)
create_user_no_unique(U, id, email, password, salt) ==
    LET db_user == [id |-> id, email |-> email,
                    hashed_password |-> get_password_hash(password, salt)]
    IN  [error |-> FALSE, users |-> Append(U, db_user), user |-> db_user]

(* User(email, hashed_password); add; commit; refresh.  The id is the next
   value of the sequence; the unique index on email aborts the insert of an
   email that a committed row has (IntegrityError) *)
create_user(U, id, email, password, salt) ==
    LET db_user == [id |-> id, email |-> email,
                    hashed_password |-> get_password_hash(password, salt)]
    IN  IF \E u \in Rows(U) : u.email = email
        THEN [error |-> TRUE, users |-> U, user |-> db_user]
        ELSE [error |-> FALSE, users |-> Append(U, db_user), user |-> db_user]

(* select(User).offset(skip).limit(limit): no filter and no ORDER BY; users
   are never updated or deleted, the rows lie in the order of the inserts;
   PostgreSQL rejects a negative OFFSET or LIMIT *)
get_all_users(U, skip, limit) ==
    IF skip < 0 \/ limit < 0
    THEN [error |-> TRUE, rows |-> <<>>]
    ELSE [error |-> FALSE, rows |-> SubSeq(U, skip + 1, Min(Len(U), skip + limit))]

authenticate_user(U, email, password) ==
    LET user == get_user_by_email(U, email)
    IN  IF user = None THEN None
        ELSE IF ~verify_password(password, user[1].hashed_password) THEN None
        ELSE user

--------------------------------------------------------------------------
(* crud/task.py *)

get_task(T, task_id) ==
    LET m == {r \in Rows(T) : r.id = task_id}
    IN  IF m = {} THEN None ELSE Some(CHOOSE r \in m : TRUE)

(* get_tasks_for_user without the where clause *)
get_tasks_for_user_unfiltered(T, user_id, skip, limit) ==
    IF skip < 0 \/ limit < 0
    THEN [error |-> TRUE, rows |-> <<>>]
    ELSE [error |-> FALSE, rows |-> SubSeq(T, skip + 1, Min(Len(T), skip + limit))]

(* select(Task).where(Task.user_id == user_id).offset(skip).limit(limit):
   PostgreSQL rejects a negative OFFSET or LIMIT; there is no ORDER BY, the
   rows come in the table's physical order *)
get_tasks_for_user(T, user_id, skip, limit) ==
    LET owned == SelectRows(T, 1, {r \in Rows(T) : r.user_id = user_id})
    IN  IF skip < 0 \/ limit < 0
        THEN [error |-> TRUE, rows |-> <<>>]
        ELSE [error |-> FALSE,
              rows |-> SubSeq(owned, skip + 1, Min(Len(owned), skip + limit))]

(* create_task on a table without the foreign key on user_id *)
create_task_no_foreign_key(T, U, seq, user_id, task_in, time) ==
    LET db_task == [id |-> seq, user_id |-> user_id,
                    title |-> task_in.title,
                    description |-> task_in.description,
                    due_date |-> task_in.due_date,
                    completed |-> Some(FALSE),
                    updated_at |-> time]
    IN  [error |-> FALSE, task |-> Some(db_task),
         tasks |-> Append(T, db_task), task_id_seq |-> seq + 1]

(* create_task on a table that refuses a second task of the same user with
   the same title *)
create_task_unique_title(T, U, seq, user_id, task_in, time) ==
    LET db_task == [id |-> seq, user_id |-> user_id,
                    title |-> task_in.title,
                    description |-> task_in.description,
                    due_date |-> task_in.due_date,
                    completed |-> Some(FALSE),
                    updated_at |-> time]
    IN  IF get_user_by_id(U, user_id) = None
           \/ \E r \in Rows(T) : r.user_id = user_id /\ r.title = task_in.title
        THEN [error |-> TRUE, task |-> None, tasks |-> T, task_id_seq |-> seq + 1]
        ELSE [error |-> FALSE, task |-> Some(db_task),
              tasks |-> Append(T, db_task), task_id_seq |-> seq + 1]

(* A Task built from the dumped TaskCreate and user_id; add; commit; refresh.
   The id is the next value of the sequence, completed takes the column
   default, updated_at the server default now() (created_at gets the same
   value and is never written or read again: the row leaves it out); the
   foreign key on user_id aborts the insert (the sequence value stays
   consumed) *)
create_task(T, U, seq, user_id, task_in, time) ==
    LET db_task == [id |-> seq, user_id |-> user_id,
                    title |-> task_in.title,
                    description |-> task_in.description,
                    due_date |-> task_in.due_date,
                    completed |-> Some(FALSE),
                    updated_at |-> time]
    IN  IF get_user_by_id(U, user_id) = None
        THEN [error |-> TRUE, task |-> None, tasks |-> T, task_id_seq |-> seq + 1]
        ELSE [error |-> FALSE, task |-> Some(db_task),
              tasks |-> Append(T, db_task), task_id_seq |-> seq + 1]

(* the loop of setattr calls over a dump made without exclude_unset: the
   fields the payload does not name come as None *)
SetAttrsUnsetToo(task, dump) ==
    [f \in DOMAIN task |->
        IF f \in DOMAIN dump THEN dump[f]
        ELSE IF f \in TaskFields THEN None
        ELSE task[f]]

(* the loop of setattr calls *)
SetAttrs(task, dump) ==
    [f \in DOMAIN task |-> IF f \in DOMAIN dump THEN dump[f] ELSE task[f]]

(* the attributes whose value differs from the loaded one: the unit of work
   emits an UPDATE only for these *)
Dirty(task, dump) == {f \in DOMAIN dump : dump[f] # task[f]}

RemoveRow(T, id) == SelectRows(T, 1, {r \in Rows(T) : r.id # id})

ReplaceRow(T, row) == [i \in 1 .. Len(T) |-> IF T[i].id = row.id THEN row ELSE T[i]]

(* where the new version of an updated row lies in the table: PostgreSQL
   writes a new tuple, in the place of the old one or behind the others *)
Relocations(T, row) == {ReplaceRow(T, row), Append(RemoveRow(T, row.id), row)}

(* update_task on a table whose title and completed columns are nullable *)
update_task_nullable(T, task, updates, time) ==
    LET changed == SetAttrs(task, updates)
        written == [changed EXCEPT !.updated_at = time]
    IN  IF Dirty(task, updates) = {}
        THEN {[error |-> FALSE, task |-> Some(task), tasks |-> T]}
        ELSE {[error |-> FALSE, task |-> Some(written), tasks |-> T2] :
                 T2 \in Relocations(T, written)}

(* setattr for each dumped field; commit; refresh.  With nothing dirty no
   UPDATE is sent and onupdate does not fire; otherwise the row is written
   with updated_at = now(), unless title or completed is NULL (NOT NULL) *)
update_task(T, task, updates, time) ==
    LET changed == SetAttrs(task, updates)
        written == [changed EXCEPT !.updated_at = time]
    IN  IF Dirty(task, updates) = {}
        THEN {[error |-> FALSE, task |-> Some(task), tasks |-> T]}
        ELSE IF changed.title = None \/ changed.completed = None
        THEN {[error |-> TRUE, task |-> None, tasks |-> T]}
        ELSE {[error |-> FALSE, task |-> Some(written), tasks |-> T2] :
                 T2 \in Relocations(T, written)}

(* delete_task whose delete is never committed *)
delete_task_not_committed(T, task) == T

delete_task(T, task) == RemoveRow(T, task.id)

--------------------------------------------------------------------------
(* services/task.py.  An outcome is the HTTP status of the raised
   HTTPException (200 when the function returns, 500 for an exception that
   is not an HTTPException), the returned rows, and the store it leaves *)

Outcome(status, body, T, seq) ==
    [status |-> status, body |-> body, tasks |-> T, task_id_seq |-> seq]

(* list_user_tasks without the test for an empty result *)
list_user_tasks_empty_ok(T, seq, user_id, skip, limit) ==
    LET q == get_tasks_for_user(T, user_id, skip, limit)
    IN  IF q.error THEN Outcome(HTTP_500_INTERNAL_SERVER_ERROR, <<>>, T, seq)
        ELSE Outcome(HTTP_200_OK, q.rows, T, seq)

list_user_tasks(T, seq, user_id, skip, limit) ==
    LET q == get_tasks_for_user(T, user_id, skip, limit)
    IN  IF q.error THEN Outcome(HTTP_500_INTERNAL_SERVER_ERROR, <<>>, T, seq)
        ELSE IF q.rows = <<>> THEN Outcome(HTTP_404_NOT_FOUND, <<>>, T, seq)
        ELSE Outcome(HTTP_200_OK, q.rows, T, seq)

(* get_existing_task without the ownership test *)
get_existing_task_no_owner_check(T, seq, user_id, task_id) ==
    LET task == get_task(T, task_id)
    IN  IF task = None THEN Outcome(HTTP_404_NOT_FOUND, <<>>, T, seq)
        ELSE Outcome(HTTP_200_OK, task, T, seq)

(* get_existing_task testing ownership before existence: an id that is not
   stored has no owner equal to the caller *)
get_existing_task_owner_first(T, seq, user_id, task_id) ==
    LET task == get_task(T, task_id)
    IN  IF task = None \/ task[1].user_id # user_id
        THEN Outcome(HTTP_403_FORBIDDEN, <<>>, T, seq)
        ELSE Outcome(HTTP_200_OK, task, T, seq)

get_existing_task(T, seq, user_id, task_id) ==
    LET task == get_task(T, task_id)
    IN  IF task = None THEN Outcome(HTTP_404_NOT_FOUND, <<>>, T, seq)
        ELSE IF task[1].user_id # user_id
        THEN Outcome(HTTP_403_FORBIDDEN, <<>>, T, seq)
        ELSE Outcome(HTTP_200_OK, task, T, seq)

make_task(T, U, seq, user_id, task_in, time) ==
    LET c == create_task(T, U, seq, user_id, task_in, time)
    IN  IF c.error
        THEN Outcome(HTTP_500_INTERNAL_SERVER_ERROR, <<>>, c.tasks, c.task_id_seq)
        ELSE Outcome(HTTP_200_OK, c.task, c.tasks, c.task_id_seq)

change_task(T, seq, user_id, task_id, updates, time) ==
    LET g == get_existing_task(T, seq, user_id, task_id)
    IN  IF g.status # HTTP_200_OK THEN {g}
        ELSE IF g.body = None THEN {Outcome(HTTP_404_NOT_FOUND, <<>>, T, seq)}
        ELSE IF g.body[1].user_id # user_id
        THEN {Outcome(HTTP_403_FORBIDDEN, <<>>, T, seq)}
        ELSE {IF u.error
              THEN Outcome(HTTP_500_INTERNAL_SERVER_ERROR, <<>>, u.tasks, seq)
              ELSE Outcome(HTTP_200_OK, u.task, u.tasks, seq) :
                  u \in update_task(T, g.body[1], updates, time)}

(* remove_task deleting whatever get_task finds *)
remove_task_unchecked(T, seq, user_id, task_id) ==
    LET task == get_task(T, task_id)
    IN  IF task = None THEN Outcome(HTTP_404_NOT_FOUND, <<>>, T, seq)
        ELSE Outcome(HTTP_200_OK, <<>>, delete_task(T, task[1]), seq)

(* remove_task deleting before the ownership test *)
remove_task_delete_first(T, seq, user_id, task_id) ==
    LET task == get_task(T, task_id)
    IN  IF task = None THEN Outcome(HTTP_404_NOT_FOUND, <<>>, T, seq)
        ELSE IF task[1].user_id # user_id
        THEN Outcome(HTTP_403_FORBIDDEN, <<>>, delete_task(T, task[1]), seq)
        ELSE Outcome(HTTP_200_OK, <<>>, delete_task(T, task[1]), seq)

remove_task(T, seq, user_id, task_id) ==
    LET g == get_existing_task(T, seq, user_id, task_id)
    IN  IF g.status # HTTP_200_OK THEN g
        ELSE Outcome(HTTP_200_OK, <<>>, delete_task(T, g.body[1]), seq)

--------------------------------------------------------------------------
(* services/user.py *)

(* register_user without the lookup by email *)
register_user_no_lookup(U, seq, salt, email, password) ==
    LET c == create_user(U, seq, email, password, salt)
    IN  IF c.error
        THEN [status |-> HTTP_500_INTERNAL_SERVER_ERROR, user |-> None,
              users |-> c.users, user_id_seq |-> seq + 1, salt_seq |-> salt + 1]
        ELSE [status |-> HTTP_200_OK, user |-> Some(c.user), users |-> c.users,
              user_id_seq |-> seq + 1, salt_seq |-> salt + 1]

(* the lookup by email, then create_user; the sequence value and the salt
   are used up by the insert, accepted or not *)
register_user(U, seq, salt, email, password) ==
    IF get_user_by_email(U, email) # None
    THEN [status |-> HTTP_400_BAD_REQUEST, user |-> None, users |-> U,
          user_id_seq |-> seq, salt_seq |-> salt]
    ELSE LET c == create_user(U, seq, email, password, salt)
         IN  IF c.error
             THEN [status |-> HTTP_500_INTERNAL_SERVER_ERROR, user |-> None,
                   users |-> c.users, user_id_seq |-> seq + 1, salt_seq |-> salt + 1]
             ELSE [status |-> HTTP_200_OK, user |-> Some(c.user), users |-> c.users,
                   user_id_seq |-> seq + 1, salt_seq |-> salt + 1]

(* login_user answering an unknown email with an error of its own *)
login_user_unknown_email(U, email, password, time) ==
    LET user == authenticate_user(U, email, password)
    IN  IF get_user_by_email(U, email) = None
        THEN [status |-> HTTP_404_NOT_FOUND, detail |-> "User not found",
              user_id |-> 0, token |-> None]
        ELSE IF user = None
        THEN [status |-> HTTP_401_UNAUTHORIZED, detail |-> "Incorrect email or password",
              user_id |-> 0, token |-> None]
        ELSE [status |-> HTTP_200_OK, detail |-> "", user_id |-> user[1].id,
              token |-> Some(create_access_token(str(user[1].id), time))]

(* detail is the detail of the HTTPException raised, "" when none is *)
login_user(U, email, password, time) ==
    LET user == authenticate_user(U, email, password)
    IN  IF user = None
        THEN [status |-> HTTP_401_UNAUTHORIZED, detail |-> "Incorrect email or password",
              user_id |-> 0, token |-> None]
        ELSE [status |-> HTTP_200_OK, detail |-> "", user_id |-> user[1].id,
              token |-> Some(create_access_token(str(user[1].id), time))]

(* decode (any exception is a 401), int(user_id) outside the try, db.get *)
get_user_from_token(U, token, time) ==
    LET d == decode_access_token(token, time)
    IN  IF d.error THEN [status |-> HTTP_401_UNAUTHORIZED, user |-> None]
        ELSE IF int(d.sub) = None
        THEN [status |-> HTTP_500_INTERNAL_SERVER_ERROR, user |-> None]
        ELSE IF get_user_by_id(U, int(d.sub)[1]) = None
        THEN [status |-> HTTP_401_UNAUTHORIZED, user |-> None]
        ELSE [status |-> HTTP_200_OK, user |-> get_user_by_id(U, int(d.sub)[1])]

get_user_by_id_service(U, user_id) ==
    LET user == get_user_by_id(U, user_id)
    IN  IF user = None THEN [status |-> HTTP_404_NOT_FOUND, user |-> None]
        ELSE [status |-> HTTP_200_OK, user |-> user]

(* get_all_users_service raising 404 for an empty result, as the task
   list does *)
get_all_users_service_empty_404(U, skip, limit) ==
    LET q == get_all_users(U, skip, limit)
    IN  IF q.error THEN [status |-> HTTP_500_INTERNAL_SERVER_ERROR, users |-> <<>>]
        ELSE IF q.rows = <<>> THEN [status |-> HTTP_404_NOT_FOUND, users |-> <<>>]
        ELSE [status |-> HTTP_200_OK, users |-> q.rows]

get_all_users_service(U, skip, limit) ==
    LET q == get_all_users(U, skip, limit)
    IN  IF q.error THEN [status |-> HTTP_500_INTERNAL_SERVER_ERROR, users |-> <<>>]
        ELSE [status |-> HTTP_200_OK, users |-> q.rows]

--------------------------------------------------------------------------
(* schemas/user.py *)

(* a response model that passes every attribute of the user on *)
UserRead_all_attributes(user) == user

(* response_model=UserRead, from_attributes: the id and the email of the
   returned User and nothing else *)
UserRead(user) == [id |-> user.id, email |-> user.email]

--------------------------------------------------------------------------
(* The last request served and its result *)

(* user_id is the caller id the service ran with, 0 when none ran *)
TokenResponse(op, status, user_id, task_id, token, body) ==
    [op |-> op, status |-> status, user_id |-> user_id, task_id |-> task_id,
     token |-> token, body |-> body]

Response(op, status, user_id, task_id, body) ==
    TokenResponse(op, status, user_id, task_id, None, body)

(* the requests being served at once, each between two awaits: how far it
   got and what it was called with *)
Requests == 1 .. MaxRequests

Idle == [op |-> "idle", email |-> "", password |-> ""]

Init ==
    /\ users = <<>>
    /\ tasks = <<>>
    /\ user_id_seq = 1
    /\ task_id_seq = 1
    /\ salt_seq = 1
    /\ now = 0
    /\ resp = Response("init", 0, 0, 0, <<>>)
    /\ inflight = [q \in Requests |-> Idle]

(* services/user.py register_user *)
RegisterUser(email, password) ==
    /\ user_id_seq <= MaxUserId
    /\ LET o == register_user(users, user_id_seq, salt_seq, email, password)
       IN  /\ users' = o.users
           /\ user_id_seq' = o.user_id_seq
           /\ salt_seq' = o.salt_seq
           /\ resp' = Response("register_user", o.status,
                               IF o.user = None THEN 0 ELSE o.user[1].id, 0, <<>>)
    /\ UNCHANGED <<tasks, task_id_seq, now, inflight>>

ListUserTasks(user_id, skip, limit) ==
    LET o == list_user_tasks(tasks, task_id_seq, user_id, skip, limit)
    IN  /\ resp' = Response("list_user_tasks", o.status, user_id, 0, o.body)
        /\ tasks' = o.tasks
        /\ task_id_seq' = o.task_id_seq
        /\ UNCHANGED <<users, user_id_seq, salt_seq, now, inflight>>

GetExistingTask(user_id, task_id) ==
    LET o == get_existing_task(tasks, task_id_seq, user_id, task_id)
    IN  /\ resp' = Response("get_existing_task", o.status, user_id, task_id, o.body)
        /\ tasks' = o.tasks
        /\ task_id_seq' = o.task_id_seq
        /\ UNCHANGED <<users, user_id_seq, salt_seq, now, inflight>>

(* the create request itself; the specifications bound the ids it hands out *)
PersistTask(user_id, task_in) ==
    LET o == make_task(tasks, users, task_id_seq, user_id, task_in, now)
    IN  /\ resp' = Response("make_task", o.status, user_id,
                            IF o.body = <<>> THEN 0 ELSE o.body[1].id, o.body)
        /\ tasks' = o.tasks
        /\ task_id_seq' = o.task_id_seq
        /\ UNCHANGED <<users, user_id_seq, salt_seq, now, inflight>>

MakeTask(user_id, task_in) ==
    /\ task_id_seq <= MaxTaskId
    /\ PersistTask(user_id, task_in)

ChangeTask(user_id, task_id, updates) ==
    \E o \in change_task(tasks, task_id_seq, user_id, task_id, updates, now) :
        /\ resp' = Response("change_task", o.status, user_id, task_id, o.body)
        /\ tasks' = o.tasks
        /\ task_id_seq' = o.task_id_seq
        /\ UNCHANGED <<users, user_id_seq, salt_seq, now, inflight>>

RemoveTask(user_id, task_id) ==
    LET o == remove_task(tasks, task_id_seq, user_id, task_id)
    IN  /\ resp' = Response("remove_task", o.status, user_id, task_id, o.body)
        /\ tasks' = o.tasks
        /\ task_id_seq' = o.task_id_seq
        /\ UNCHANGED <<users, user_id_seq, salt_seq, now, inflight>>

(* time passes between requests *)
Tick ==
    /\ now < MaxTime
    /\ now' = now + 1
    /\ resp' = Response("tick", 0, 0, 0, <<>>)
    /\ UNCHANGED <<users, tasks, user_id_seq, task_id_seq, salt_seq, inflight>>

--------------------------------------------------------------------------
(* services/user.py as requests *)

LoginUser(email, password) ==
    LET o == login_user(users, email, password, now)
    IN  /\ resp' = TokenResponse("login_user", o.status, o.user_id, 0, o.token,
                                 IF o.detail = "" THEN <<>> ELSE <<[detail |-> o.detail]>>)
        /\ UNCHANGED <<users, tasks, user_id_seq, task_id_seq, salt_seq, now, inflight>>

GetUserFromToken(token) ==
    LET o == get_user_from_token(users, token, now)
    IN  /\ resp' = TokenResponse("get_user_from_token", o.status,
                                 IF o.user = None THEN 0 ELSE o.user[1].id,
                                 0, Some(token), <<>>)
        /\ UNCHANGED <<users, tasks, user_id_seq, task_id_seq, salt_seq, now, inflight>>

GetUserByIdService(user_id) ==
    LET o == get_user_by_id_service(users, user_id)
    IN  /\ resp' = Response("get_user_by_id_service", o.status,
                            IF o.user = None THEN 0 ELSE o.user[1].id, 0, <<>>)
        /\ UNCHANGED <<users, tasks, user_id_seq, task_id_seq, salt_seq, now, inflight>>

--------------------------------------------------------------------------
(* controllers/task.py: every route depends on get_current_user, reads
   current_user.id and calls its service: serve[id] is what the service does for caller id, ok
   the route's success status *)

Route(op, token, task_id, ok, serve) ==
    LET cu == get_current_user(token, now)
    IN  IF cu.status # HTTP_200_OK
        THEN /\ resp' = TokenResponse(op, cu.status, 0, task_id, Some(token), <<>>)
             /\ UNCHANGED <<tasks, task_id_seq>>
        ELSE IF ~HasAttr(cu.user[1], "id")
        THEN /\ resp' = TokenResponse(op, HTTP_500_INTERNAL_SERVER_ERROR, 0, task_id,
                                      Some(token), <<>>)
             /\ UNCHANGED <<tasks, task_id_seq>>
        ELSE \E o \in serve[cu.user[1].id] :
                /\ resp' = TokenResponse(op, IF o.status = HTTP_200_OK THEN ok ELSE o.status,
                                         cu.user[1].id, task_id, Some(token), o.body)
                /\ tasks' = o.tasks
                /\ task_id_seq' = o.task_id_seq

read_tasks(token, skip, limit) ==
    /\ Route("read_tasks", token, 0, HTTP_200_OK,
             [id \in UserIdInputs |-> {list_user_tasks(tasks, task_id_seq, id, skip, limit)}])
    /\ UNCHANGED <<users, user_id_seq, salt_seq, now, inflight>>

create_new_task(token, task_in) ==
    /\ task_id_seq <= MaxTaskId
    /\ Route("create_new_task", token, 0, HTTP_201_CREATED,
             [id \in UserIdInputs |-> {make_task(tasks, users, task_id_seq, id, task_in, now)}])
    /\ UNCHANGED <<users, user_id_seq, salt_seq, now, inflight>>

read_task(token, task_id) ==
    /\ Route("read_task", token, task_id, HTTP_200_OK,
             [id \in UserIdInputs |-> {get_existing_task(tasks, task_id_seq, id, task_id)}])
    /\ UNCHANGED <<users, user_id_seq, salt_seq, now, inflight>>

update_existing_task(token, task_id, updates) ==
    /\ Route("update_existing_task", token, task_id, HTTP_200_OK,
             [id \in UserIdInputs |-> change_task(tasks, task_id_seq, id, task_id, updates, now)])
    /\ UNCHANGED <<users, user_id_seq, salt_seq, now, inflight>>

delete_existing_task(token, task_id) ==
    /\ Route("delete_existing_task", token, task_id, HTTP_204_NO_CONTENT,
             [id \in UserIdInputs |-> {remove_task(tasks, task_id_seq, id, task_id)}])
    /\ UNCHANGED <<users, user_id_seq, salt_seq, now, inflight>>

RouteOps == {"read_tasks", "create_new_task", "read_task",
             "update_existing_task", "delete_existing_task"}

--------------------------------------------------------------------------
(* controllers/user.py: the routes that answer with users *)

register(email, password) ==
    /\ user_id_seq <= MaxUserId
    /\ LET o == register_user(users, user_id_seq, salt_seq, email, password)
       IN  /\ users' = o.users
           /\ user_id_seq' = o.user_id_seq
           /\ salt_seq' = o.salt_seq
           /\ resp' = IF o.status = HTTP_200_OK
                      THEN Response("register", HTTP_201_CREATED, o.user[1].id, 0,
                                    <<UserRead(o.user[1])>>)
                      ELSE Response("register", o.status, 0, 0, <<>>)
    /\ UNCHANGED <<tasks, task_id_seq, now, inflight>>

get_all_users_endpoint(skip, limit) ==
    LET o == get_all_users_service(users, skip, limit)
    IN  /\ resp' = Response("get_all_users", o.status, 0, 0,
                            [i \in 1 .. Len(o.users) |-> UserRead(o.users[i])])
        /\ UNCHANGED <<users, tasks, user_id_seq, task_id_seq, salt_seq, now, inflight>>

get_user_by_id_endpoint(user_id) ==
    LET o == get_user_by_id_service(users, user_id)
    IN  /\ resp' = IF o.status = HTTP_200_OK
                   THEN Response("get_user_by_id", o.status, o.user[1].id, 0,
                                 <<UserRead(o.user[1])>>)
                   ELSE Response("get_user_by_id", o.status, 0, 0, <<>>)
        /\ UNCHANGED <<users, tasks, user_id_seq, task_id_seq, salt_seq, now, inflight>>

UserRouteOps == {"register", "get_all_users", "get_user_by_id"}

NextUser ==
    \/ \E e \in Emails, p \in Passwords \cup WrongPasswords : register(e, p)
    \/ \E s \in SkipInputs, l \in LimitInputs : get_all_users_endpoint(s, l)
    \/ \E c \in UserIdInputs : get_user_by_id_endpoint(c)
    \/ \E e \in Emails, p \in Passwords \cup WrongPasswords : LoginUser(e, p)

SpecUser == Init /\ [][NextUser]_vars

--------------------------------------------------------------------------
(* The task service, as its callers use it *)

CreateInputs == {[title |-> Some("T1"), description |-> None, due_date |-> None]}
UpdateInputs == {EmptyUpdate, [completed |-> Some(TRUE)], [title |-> None]}

Next ==
    \/ \E e \in Emails, p \in Passwords : RegisterUser(e, p)
    \/ \E c \in UserIdInputs, s \in SkipInputs, l \in LimitInputs : ListUserTasks(c, s, l)
    \/ \E c \in UserIdInputs, t \in TaskIdInputs : GetExistingTask(c, t)
    \/ \E c \in UserIdInputs, i \in CreateInputs : MakeTask(c, i)
    \/ \E c \in UserIdInputs, t \in TaskIdInputs, u \in UpdateInputs : ChangeTask(c, t, u)
    \/ \E c \in UserIdInputs, t \in TaskIdInputs : RemoveTask(c, t)

Spec == Init /\ [][Next]_vars

--------------------------------------------------------------------------
(* Updates of one user's tasks in full: every TaskCreate, and TaskUpdate
   payloads over every field and value *)

MaxLiveTasks == 1
MaxPayloadFields == 1

OwnerEmails == {"a@x.com"}

(* the payloads sent: those naming at most MaxPayloadFields fields *)
UpdatePayloads == {u \in TaskUpdate : Cardinality(DOMAIN u) <= MaxPayloadFields}

(* the callers are the registered users *)
RegisteredIds(U) == {u.id : u \in Rows(U)}

NextUpdate ==
    \/ \E e \in OwnerEmails, p \in Passwords : RegisterUser(e, p)
    \/ \E c \in RegisteredIds(users), i \in TaskCreate :
          Len(tasks) < MaxLiveTasks /\ MakeTask(c, i)
    \/ \E c \in RegisteredIds(users), t \in TaskIdInputs, u \in UpdatePayloads :
          ChangeTask(c, t, u)
    \/ \E c \in RegisteredIds(users), t \in TaskIdInputs : RemoveTask(c, t)

SpecUpdate == Init /\ [][NextUpdate]_vars

--------------------------------------------------------------------------
(* Updates with time passing between the requests *)

TimedUpdateInputs == {EmptyUpdate, [completed |-> Some(TRUE)], [completed |-> Some(FALSE)],
                      [title |-> Some("T1")], [title |-> Some("T2")]}

NextTime ==
    \/ \E e \in OwnerEmails, p \in Passwords : RegisterUser(e, p)
    \/ \E c \in RegisteredIds(users), i \in CreateInputs : MakeTask(c, i)
    \/ \E c \in RegisteredIds(users), t \in TaskIdInputs, u \in TimedUpdateInputs :
          ChangeTask(c, t, u)
    \/ \E c \in RegisteredIds(users), t \in TaskIdInputs : RemoveTask(c, t)
    \/ Tick

SpecTime == Init /\ [][NextTime]_vars

--------------------------------------------------------------------------
(* Register requests served at once.  register_user awaits twice: the
   lookup by email, and create_user's commit of the insert; other requests
   run in between *)

RegisterLookup(q, email, password) ==
    /\ user_id_seq <= MaxUserId
    /\ inflight[q] = Idle
    /\ IF get_user_by_email(users, email) # None
       THEN /\ resp' = Response("register_user", HTTP_400_BAD_REQUEST, 0, 0, <<>>)
            /\ UNCHANGED inflight
       ELSE /\ inflight' = [inflight EXCEPT ![q] =
                               [op |-> "create_user", email |-> email, password |-> password]]
            /\ UNCHANGED resp
    /\ UNCHANGED <<users, tasks, user_id_seq, task_id_seq, salt_seq, now>>

RegisterInsert(q) ==
    /\ inflight[q].op = "create_user"
    /\ LET c == create_user(users, user_id_seq, inflight[q].email, inflight[q].password,
                            salt_seq)
       IN  /\ users' = c.users
           /\ user_id_seq' = user_id_seq + 1
           /\ salt_seq' = salt_seq + 1
           /\ resp' = IF c.error
                      THEN Response("register_user", HTTP_500_INTERNAL_SERVER_ERROR, 0, 0, <<>>)
                      ELSE Response("register_user", HTTP_200_OK, c.user.id, 0, <<>>)
    /\ inflight' = [inflight EXCEPT ![q] = Idle]
    /\ UNCHANGED <<tasks, task_id_seq, now>>

NextRegister ==
    \/ \E q \in Requests, e \in Emails, p \in Passwords \cup WrongPasswords :
          RegisterLookup(q, e, p)
    \/ \E q \in Requests : RegisterInsert(q)

SpecRegister == Init /\ [][NextRegister]_vars

--------------------------------------------------------------------------
(* Update and delete requests of the owner served at once, each in its own
   session (get_db).  change_task awaits three times: the select of
   get_existing_task, update_task's commit and its refresh; remove_task
   awaits the select and delete_task's commit; other requests run in
   between *)

RaceUpdateInputs == {[title |-> Some("T1")], [title |-> Some("T2")]}

(* update_task's commit for a task loaded as `task`: the unit of work sends
   UPDATE ... WHERE id = task.id for the attributes that differ from the
   loaded ones, and nothing when none differs; the statement fails on a
   NULL title or completed, and the unit of work raises StaleDataError
   when it matches no row *)
update_task_commit(T, task, updates, time) ==
    LET dirty == Dirty(task, updates)
        changed == SetAttrs(task, updates)
        stored == get_task(T, task.id)
    IN  IF dirty = {} THEN {[error |-> FALSE, tasks |-> T]}
        ELSE IF changed.title = None \/ changed.completed = None
        THEN {[error |-> TRUE, tasks |-> T]}
        ELSE IF stored = None THEN {[error |-> TRUE, tasks |-> T]}
        ELSE LET written == [f \in DOMAIN stored[1] |->
                                IF f \in dirty THEN updates[f]
                                ELSE IF f = "updated_at" THEN time
                                ELSE stored[1][f]]
             IN  {[error |-> FALSE, tasks |-> T2] : T2 \in Relocations(T, written)}

(* update_task's refresh: the row as stored by then, an error when it is
   gone *)
update_task_refresh(T, task) == get_task(T, task.id)

ChangeTaskSelect(q, user_id, task_id, updates) ==
    /\ inflight[q].op = "idle"
    /\ LET g == get_existing_task(tasks, task_id_seq, user_id, task_id)
       IN  IF g.status # HTTP_200_OK
           THEN /\ resp' = Response("change_task", g.status, user_id, task_id, <<>>)
                /\ UNCHANGED inflight
           ELSE /\ inflight' = [inflight EXCEPT ![q] =
                                   [op |-> "update_task", user_id |-> user_id,
                                    task |-> g.body[1], updates |-> updates]]
                /\ UNCHANGED resp
    /\ UNCHANGED <<users, tasks, user_id_seq, task_id_seq, salt_seq, now>>

ChangeTaskCommit(q) ==
    /\ inflight[q].op = "update_task"
    /\ \E o \in update_task_commit(tasks, inflight[q].task, inflight[q].updates, now) :
          /\ tasks' = o.tasks
          /\ IF o.error
             THEN /\ resp' = Response("change_task", HTTP_500_INTERNAL_SERVER_ERROR,
                                      inflight[q].user_id, inflight[q].task.id, <<>>)
                  /\ inflight' = [inflight EXCEPT ![q] = Idle]
             ELSE /\ inflight' = [inflight EXCEPT ![q].op = "refresh"]
                  /\ UNCHANGED resp
    /\ UNCHANGED <<users, user_id_seq, task_id_seq, salt_seq, now>>

ChangeTaskRefresh(q) ==
    /\ inflight[q].op = "refresh"
    /\ LET r == update_task_refresh(tasks, inflight[q].task)
       IN  resp' = Response("change_task",
                            IF r = None THEN HTTP_500_INTERNAL_SERVER_ERROR ELSE HTTP_200_OK,
                            inflight[q].user_id, inflight[q].task.id, r)
    /\ inflight' = [inflight EXCEPT ![q] = Idle]
    /\ UNCHANGED <<users, tasks, user_id_seq, task_id_seq, salt_seq, now>>

RemoveTaskSelect(q, user_id, task_id) ==
    /\ inflight[q].op = "idle"
    /\ LET g == get_existing_task(tasks, task_id_seq, user_id, task_id)
       IN  IF g.status # HTTP_200_OK
           THEN /\ resp' = Response("remove_task", g.status, user_id, task_id, <<>>)
                /\ UNCHANGED inflight
           ELSE /\ inflight' = [inflight EXCEPT ![q] =
                                   [op |-> "delete_task", user_id |-> user_id,
                                    task |-> g.body[1], updates |-> EmptyUpdate]]
                /\ UNCHANGED resp
    /\ UNCHANGED <<users, tasks, user_id_seq, task_id_seq, salt_seq, now>>

(* delete_task's commit: DELETE ... WHERE id = task.id; a statement that
   matches no row is a warning of the unit of work, not an exception *)
RemoveTaskCommit(q) ==
    /\ inflight[q].op = "delete_task"
    /\ tasks' = delete_task(tasks, inflight[q].task)
    /\ resp' = Response("remove_task", HTTP_200_OK, inflight[q].user_id,
                        inflight[q].task.id, <<>>)
    /\ inflight' = [inflight EXCEPT ![q] = Idle]
    /\ UNCHANGED <<users, user_id_seq, task_id_seq, salt_seq, now>>

NextRace ==
    \/ \E e \in OwnerEmails, p \in Passwords : RegisterUser(e, p)
    \/ \E c \in RegisteredIds(users), i \in CreateInputs :
          Len(tasks) < MaxLiveTasks /\ MakeTask(c, i)
    \/ \E q \in Requests, c \in RegisteredIds(users), t \in TaskIdInputs,
          u \in RaceUpdateInputs : ChangeTaskSelect(q, c, t, u)
    \/ \E q \in Requests : ChangeTaskCommit(q)
    \/ \E q \in Requests : ChangeTaskRefresh(q)
    \/ \E q \in Requests, c \in RegisteredIds(users), t \in TaskIdInputs :
          RemoveTaskSelect(q, c, t)
    \/ \E q \in Requests : RemoveTaskCommit(q)

SpecRace == Init /\ [][NextRace]_vars

--------------------------------------------------------------------------
(* Registering and logging in with passwords of every length *)

LoginPasswords == Passwords \cup WrongPasswords \cup LongPasswords

NextLogin ==
    \/ \E e \in Emails, p \in LoginPasswords : RegisterUser(e, p)
    \/ \E e \in Emails, p \in LoginPasswords : LoginUser(e, p)
    \/ Tick

SpecLogin == Init /\ [][NextLogin]_vars

--------------------------------------------------------------------------
(* Creates, updates and deletes by every caller, the update bodies naming
   an owner as well *)

UpdateBodies ==
    UpdateInputs
    \cup {[user_id |-> u] : u \in UserIdInputs}
    \cup {[completed |-> Some(TRUE), user_id |-> u] : u \in UserIdInputs}

NextOwner ==
    \/ \E e \in Emails, p \in Passwords : RegisterUser(e, p)
    \/ \E c \in UserIdInputs, i \in CreateInputs : MakeTask(c, i)
    \/ \E c \in UserIdInputs, t \in TaskIdInputs, b \in UpdateBodies :
          ChangeTask(c, t, TaskUpdateFromBody(b))
    \/ \E c \in UserIdInputs, t \in TaskIdInputs : RemoveTask(c, t)

SpecOwner == Init /\ [][NextOwner]_vars

--------------------------------------------------------------------------
(* Paging through one user's tasks: creates, updates and deletes, and lists
   with every skip and limit *)

MaxPageTasks == 3

PageUpdateInputs == {[completed |-> Some(TRUE)]}

NextPage ==
    \/ \E e \in OwnerEmails, p \in Passwords : RegisterUser(e, p)
    \/ \E c \in RegisteredIds(users), i \in CreateInputs :
          task_id_seq <= MaxPageTasks /\ PersistTask(c, i)
    \/ \E c \in RegisteredIds(users), t \in 1 .. MaxPageTasks, u \in PageUpdateInputs :
          ChangeTask(c, t, u)
    \/ \E c \in RegisteredIds(users), t \in 1 .. MaxPageTasks : RemoveTask(c, t)
    \/ \E c \in RegisteredIds(users), s \in SkipInputs, l \in LimitInputs :
          ListUserTasks(c, s, l)

SpecPage == Init /\ [][NextPage]_vars

--------------------------------------------------------------------------
(* The task routes behind the bearer token: tokens are the ones login
   issues and the ones a client can build (any subject, expired or not,
   signed with the server's key or another) *)

SubInputs == {""} \cup {str(n) : n \in UserIdInputs} \cup {"x"}

TokenInputs(time) ==
    [sub : OptOf(SubInputs),
     exp : {time - 1, time + ACCESS_TOKEN_EXPIRE_MINUTES},
     key : {SECRET_KEY, "wrong_secret"}]

NextAuth ==
    \/ \E e \in Emails, p \in Passwords : RegisterUser(e, p)
    \/ \E e \in Emails, p \in Passwords \cup WrongPasswords : LoginUser(e, p)
    \/ \E k \in TokenInputs(now) : GetUserFromToken(k)
    \/ \E c \in UserIdInputs : GetUserByIdService(c)
    \/ \E c \in UserIdInputs, i \in CreateInputs : MakeTask(c, i)
    \/ \E k \in TokenInputs(now), s \in SkipInputs, l \in LimitInputs : read_tasks(k, s, l)
    \/ \E k \in TokenInputs(now), i \in CreateInputs : create_new_task(k, i)
    \/ \E k \in TokenInputs(now), t \in TaskIdInputs : read_task(k, t)
    \/ \E k \in TokenInputs(now), t \in TaskIdInputs, u \in UpdateInputs :
          update_existing_task(k, t, u)
    \/ \E k \in TokenInputs(now), t \in TaskIdInputs : delete_existing_task(k, t)

SpecAuth == Init /\ [][NextAuth]_vars

--------------------------------------------------------------------------
(* Every operation of the two services, by every caller *)

(* the tokens signed with the server's key, expired or not *)
FrameTokens(time) == {k \in TokenInputs(time) : k.key = SECRET_KEY}

(* the pages asked for: the first ones, of every size *)
FrameSkips == {0}

NextFrame ==
    \/ \E e \in Emails, p \in Passwords : RegisterUser(e, p)
    \/ \E e \in Emails, p \in Passwords \cup WrongPasswords : LoginUser(e, p)
    \/ \E t \in FrameTokens(now) : GetUserFromToken(t)
    \/ \E c \in UserIdInputs : GetUserByIdService(c)
    \/ \E s \in FrameSkips, l \in 0 .. MaxLimit : get_all_users_endpoint(s, l)
    \/ \E c \in UserIdInputs, s \in FrameSkips, l \in 0 .. MaxLimit : ListUserTasks(c, s, l)
    \/ \E c \in UserIdInputs, t \in TaskIdInputs : GetExistingTask(c, t)
    \/ \E c \in UserIdInputs, i \in CreateInputs : MakeTask(c, i)
    \/ \E c \in UserIdInputs, t \in TaskIdInputs, u \in UpdateInputs : ChangeTask(c, t, u)
    \/ \E c \in UserIdInputs, t \in TaskIdInputs : RemoveTask(c, t)

SpecFrame == Init /\ [][NextFrame]_vars

--------------------------------------------------------------------------
(* Tokens over their lifetime: logins issue them, clients present the ones
   they hold and the ones they build, and the clock runs past the expiry *)

(* the clock moves on by a minute or by a whole token lifetime *)
Elapse(minutes) ==
    /\ now + minutes <= ACCESS_TOKEN_EXPIRE_MINUTES + MaxTime
    /\ now' = now + minutes
    /\ resp' = Response("tick", 0, 0, 0, <<>>)
    /\ UNCHANGED <<users, tasks, user_id_seq, task_id_seq, salt_seq, inflight>>

(* the tokens the logins up to now can have issued *)
HeldTokens(time) ==
    {create_access_token(str(n), t) : n \in UserIdInputs, t \in 0 .. Min(time, MaxTime)}

NextToken ==
    \/ \E e \in Emails, p \in Passwords : RegisterUser(e, p)
    \/ \E e \in Emails, p \in Passwords \cup WrongPasswords : LoginUser(e, p)
    \/ \E k \in TokenInputs(now) \cup HeldTokens(now) : GetUserFromToken(k)
    \/ \E m \in {1, ACCESS_TOKEN_EXPIRE_MINUTES} : Elapse(m)

SpecToken == Init /\ [][NextToken]_vars

--------------------------------------------------------------------------
(* Properties of the task service (Spec) *)

Present(T, task_id) == {r \in Rows(T) : r.id = task_id}

(* what get(c, t) must answer in store T *)
GetDecision(T, status, body, c, t) ==
    /\ (status = HTTP_404_NOT_FOUND) <=> (Present(T, t) = {})
    /\ (status = HTTP_403_FORBIDDEN) <=> (\E r \in Present(T, t) : r.user_id # c)
    /\ status \in {HTTP_404_NOT_FOUND, HTTP_403_FORBIDDEN, HTTP_200_OK}
    /\ (status = HTTP_200_OK) =>
          /\ Len(body) = 1
          /\ body[1] \in Present(T, t)
          /\ body[1].user_id = c

(* C1: in every store state, for every caller c and task id t, get(c, t)
   fails with 404 exactly when no task has id t, fails with 403 exactly when
   a task has id t and another owner, and otherwise returns that task; the
   get request just served has answered so *)
C1_GetExistenceThenOwnership ==
    /\ \A c \in UserIdInputs, t \in TaskIdInputs :
          LET o == get_existing_task(tasks, task_id_seq, c, t)
          IN  GetDecision(tasks, o.status, o.body, c, t)
    /\ (resp.op = "get_existing_task") =>
          GetDecision(tasks, resp.status, resp.body, resp.user_id, resp.task_id)

(* a get of an existing task by a user who does not own it was refused, and
   an id that does not exist is 404 for that same caller *)
C1_Witness ==
    /\ resp.op = "get_existing_task"
    /\ resp.status = HTTP_403_FORBIDDEN
    /\ \E r \in Rows(tasks) : r.id = resp.task_id /\ r.user_id # resp.user_id
    /\ \E t \in TaskIdInputs : Present(tasks, t) = {}

(* C2: update and delete decide as get does: a step that serves
   update(c, t, .) or delete(c, t) answers 404 where get(c, t) answers 404,
   403 where get answers 403, leaves the store alone in both cases, and
   writes or removes the task only where get(c, t) succeeds *)
C2_UpdateDeleteDecideAsGet ==
    [][(resp'.op \in {"change_task", "remove_task"}) =>
          LET g == get_existing_task(tasks, task_id_seq, resp'.user_id, resp'.task_id)
          IN  /\ (g.status # HTTP_200_OK) => (resp'.status = g.status /\ tasks' = tasks)
              /\ (g.status = HTTP_200_OK) =>
                    /\ resp'.status \in {HTTP_200_OK, HTTP_500_INTERNAL_SERVER_ERROR}
                    /\ \A r \in Rows(tasks) : r.id # resp'.task_id => r \in Rows(tasks')
                    /\ (resp'.op = "remove_task") =>
                          (resp'.status = HTTP_200_OK /\ Present(tasks', resp'.task_id) = {})]_vars

(* a delete by a user who does not own the task was refused and the task
   is still stored *)
C2_Witness ==
    /\ resp.op = "remove_task"
    /\ resp.status = HTTP_403_FORBIDDEN
    /\ \E r \in Rows(tasks) : r.id = resp.task_id /\ r.user_id # resp.user_id

(* C3: no caller reads, changes or removes a task of another user: the rows
   a get, list or update returns are the caller's, and a row that a step
   changes or removes is changed or removed by an update or delete of its
   owner *)
C3_OnlyOwnerTouchesTask ==
    [][/\ (resp'.status = HTTP_200_OK
             /\ resp'.op \in {"get_existing_task", "list_user_tasks", "change_task"}) =>
             \A i \in 1 .. Len(resp'.body) : resp'.body[i].user_id = resp'.user_id
       /\ \A r \in Rows(tasks) :
             (r \notin Rows(tasks')) =>
                 /\ resp'.op \in {"change_task", "remove_task"}
                 /\ resp'.user_id = r.user_id
                 /\ resp'.task_id = r.id]_vars

(* an owner changed a task while a task of another user is stored *)
C3_Witness ==
    /\ resp.op = "change_task"
    /\ resp.status = HTTP_200_OK
    /\ resp.body[1].completed = Some(TRUE)
    /\ \E r \in Rows(tasks) : r.user_id # resp.user_id

(* the rows of user c in the order the table holds them *)
OwnedBy(T, c) == SelectRows(T, 1, {r \in Rows(T) : r.user_id = c})

(* what the task service answers about an id that is not stored *)
Absent(T, seq, t, time) ==
    /\ \A c \in UserIdInputs :
          /\ get_existing_task(T, seq, c, t).status = HTTP_404_NOT_FOUND
          /\ remove_task(T, seq, c, t).status = HTTP_404_NOT_FOUND
          /\ \A u \in UpdateInputs :
                \A o \in change_task(T, seq, c, t, u, time) :
                    o.status = HTTP_404_NOT_FOUND /\ o.tasks = T
          /\ \A s \in SkipInputs, l \in LimitInputs :
                \A r \in Rows(list_user_tasks(T, seq, c, s, l).body) : r.id # t

(* an id the sequence has handed out and that no stored task has *)
Gone(T, seq, t) == t < seq /\ Present(T, t) = {}

(* C8: once delete(c, t) has succeeded the task stays absent: the delete
   leaves no task with id t, an id that is gone never comes back (ids come
   from a sequence, a later create never takes it again), and as long as it
   is gone, get, update and delete of t answer 404 for every caller and no
   list holds t *)
C8_DeletedStaysAbsent ==
    /\ [](\A t \in TaskIdInputs :
            Gone(tasks, task_id_seq, t) => Absent(tasks, task_id_seq, t, now))
    /\ [][\A t \in TaskIdInputs :
            (\/ (resp'.op = "remove_task" /\ resp'.status = HTTP_200_OK
                    /\ resp'.task_id = t)
             \/ Gone(tasks, task_id_seq, t))
            => Gone(tasks', task_id_seq', t)]_vars

(* a delete by the owner succeeded: its task is gone, another task is
   still stored *)
C8_Witness ==
    /\ resp.op = "remove_task"
    /\ resp.status = HTTP_200_OK
    /\ Present(tasks, resp.task_id) = {}
    /\ resp.task_id < task_id_seq
    /\ tasks # <<>>

(* C9: list(c, skip, limit) returns rows of c only, at most limit of them,
   and every row of c that lies in the window (after the first skip rows of
   c, among the next limit) *)
ListWindow(T, rows, c, skip, limit) ==
    /\ \A i \in 1 .. Len(rows) : rows[i].user_id = c /\ rows[i] \in Rows(T)
    /\ Len(rows) <= limit
    /\ \A j \in 1 .. Len(OwnedBy(T, c)) :
          (j > skip /\ j <= skip + limit) => OwnedBy(T, c)[j] \in Rows(rows)

C9_ListOnlyOwnTasksInWindow ==
    /\ \A c \in UserIdInputs, s \in SkipInputs, l \in LimitInputs :
          LET o == list_user_tasks(tasks, task_id_seq, c, s, l)
          IN  (o.status # HTTP_500_INTERNAL_SERVER_ERROR) =>
                  ListWindow(tasks, o.body, c, s, l)
    /\ (resp.op = "list_user_tasks" /\ resp.status = HTTP_200_OK) =>
          \A i \in 1 .. Len(resp.body) :
              resp.body[i].user_id = resp.user_id /\ resp.body[i] \in Rows(tasks)

(* a list succeeded for a user while a task of another user is stored *)
C9_Witness ==
    /\ resp.op = "list_user_tasks"
    /\ resp.status = HTTP_200_OK
    /\ \E r \in Rows(tasks) : r.user_id # resp.user_id

(* C10: list fails with 404 exactly when the fetch yields zero rows, and
   succeeds with the fetched, non-empty rows otherwise; a success never
   carries an empty list *)
C10_EmptyListIsNotFound ==
    /\ \A c \in UserIdInputs, s \in SkipInputs, l \in LimitInputs :
          LET q == get_tasks_for_user(tasks, c, s, l)
              o == list_user_tasks(tasks, task_id_seq, c, s, l)
          IN  /\ (o.status = HTTP_404_NOT_FOUND) <=> (~q.error /\ q.rows = <<>>)
              /\ (o.status = HTTP_200_OK) <=> (~q.error /\ q.rows # <<>>)
              /\ (o.status = HTTP_200_OK) => (o.body = q.rows)
    /\ (resp.op = "list_user_tasks" /\ resp.status = HTTP_200_OK) => resp.body # <<>>

(* a list failed with 404 for a user who has tasks, none of them in the
   window asked for *)
C10_Witness ==
    /\ resp.op = "list_user_tasks"
    /\ resp.status = HTTP_404_NOT_FOUND
    /\ \E r \in Rows(tasks) : r.user_id = resp.user_id

(* what create(c, fields) must leave: store T2 is store T and one more row,
   the returned one, with a new id, owner c, completed false and the fields
   supplied *)
Created(T, T2, status, body, c, fields) ==
    /\ status = HTTP_200_OK
    /\ Len(body) = 1
    /\ T2 = Append(T, body[1])
    /\ \A r \in Rows(T) : r.id # body[1].id
    /\ body[1].user_id = c
    /\ body[1].completed = Some(FALSE)
    /\ body[1].title = fields.title
    /\ body[1].description = fields.description
    /\ body[1].due_date = fields.due_date

(* C12: in every store state, create(c, fields) by a registered user c with
   any TaskCreate fields succeeds and adds exactly one task: owner c,
   completed false, the supplied title, description and due date, an id no
   stored task has; nothing else in the store changes.  No two stored tasks
   share an id, and the create just served by a registered user has left its
   task as the newest row, whatever fields the other tasks have *)
C12_CreatePersistsNewTask ==
    /\ \A c \in RegisteredIds(users), i \in TaskCreate :
          LET o == make_task(tasks, users, task_id_seq, c, i, now)
          IN  Created(tasks, o.tasks, o.status, o.body, c, i)
    /\ \A i, j \in 1 .. Len(tasks) : tasks[i].id = tasks[j].id => i = j
    /\ (resp.op = "make_task" /\ resp.user_id \in RegisteredIds(users)) =>
          /\ resp.status = HTTP_200_OK
          /\ tasks # <<>>
          /\ resp.body = <<tasks[Len(tasks)]>>
          /\ resp.body[1].user_id = resp.user_id
          /\ resp.body[1].completed = Some(FALSE)

(* a create succeeded while a task of the same user with the same fields is
   stored under another id *)
C12_Witness ==
    /\ resp.op = "make_task"
    /\ resp.status = HTTP_200_OK
    /\ \E r \in Rows(tasks) :
          /\ r.id # resp.body[1].id
          /\ r.user_id = resp.body[1].user_id
          /\ r.title = resp.body[1].title
          /\ r.description = resp.body[1].description
          /\ r.due_date = resp.body[1].due_date

--------------------------------------------------------------------------
(* Properties of the user service (Spec) *)

(* C13: in every store state and for every email and password,
   register(email, password) fails with 400 and leaves the users alone when
   a user has that email; otherwise it succeeds and adds exactly one user,
   with that email and an id no stored user has, and registering the same
   email again right after fails with 400 whatever the password; the
   register request just served has answered so *)
C13_RegisterOnceThenConflict ==
    /\ \A e \in Emails, p \in Passwords :
          LET o == register_user(users, user_id_seq, salt_seq, e, p)
          IN  IF \E u \in Rows(users) : u.email = e
              THEN o.status = HTTP_400_BAD_REQUEST /\ o.users = users
              ELSE /\ o.status = HTTP_200_OK
                   /\ o.users = Append(users, o.user[1])
                   /\ o.user[1].email = e
                   /\ \A u \in Rows(users) : u.id # o.user[1].id
                   /\ \A p2 \in Passwords \cup WrongPasswords :
                         LET o2 == register_user(o.users, o.user_id_seq, o.salt_seq, e, p2)
                         IN  o2.status = HTTP_400_BAD_REQUEST /\ o2.users = o.users
    /\ (resp.op = "register_user") =>
          /\ resp.status \in {HTTP_200_OK, HTTP_400_BAD_REQUEST}
          /\ (resp.status = HTTP_400_BAD_REQUEST) => users # <<>>
          /\ (resp.status = HTTP_200_OK) =>
                /\ users # <<>>
                /\ users[Len(users)].id = resp.user_id
                /\ \A i \in 1 .. (Len(users) - 1) :
                      /\ users[i].id # resp.user_id
                      /\ users[i].email # users[Len(users)].email

(* a register was refused with 400 while the user registered first with
   that email is stored, and another email is still free *)
C13_Witness ==
    /\ resp.op = "register_user"
    /\ resp.status = HTTP_400_BAD_REQUEST
    /\ Len(users) = 1
    /\ \E e \in Emails : get_user_by_email(users, e) = None

(* C14: in every state that interleaved register requests reach, no two
   stored users have the same email and no two have the same id *)
C14_UsersUniqueEmailAndId ==
    \A i, j \in 1 .. Len(users) :
        (users[i].email = users[j].email \/ users[i].id = users[j].id) => i = j

(* two registers of one email both passed the lookup; the insert of the
   second was refused and the first one's user is stored *)
C14_Witness ==
    /\ resp.op = "register_user"
    /\ resp.status = HTTP_500_INTERNAL_SERVER_ERROR
    /\ Len(users) = 1
    /\ \A q \in Requests : inflight[q] = Idle

(* the user id a token resolves to at a time, 0 when it does not resolve *)
ResolvedId(token, time) ==
    LET d == decode_access_token(token, time)
    IN  IF d.error \/ int(d.sub) = None THEN 0 ELSE int(d.sub)[1]

(* C15: in every store state, authenticate(e, p) answers 401 when no user
   has email e or p does not verify against that user's digest, and
   otherwise issues a token that resolves to that user's id; and after a
   successful register(e, p), authenticate(e, p) issues a token that
   resolves to the registered user's id while authenticate(e, p2) answers
   401 for every password p2 different from p *)
C15_AuthenticateChecksPassword ==
    /\ \A e \in Emails, p \in LoginPasswords :
          LET u == get_user_by_email(users, e)
              o == login_user(users, e, p, now)
          IN  IF u = None \/ ~verify_password(p, u[1].hashed_password)
              THEN o.status = HTTP_401_UNAUTHORIZED /\ o.token = None
              ELSE /\ o.status = HTTP_200_OK
                   /\ ResolvedId(o.token[1], now) = u[1].id
    /\ \A e \in Emails, p \in LoginPasswords :
          LET r == register_user(users, user_id_seq, salt_seq, e, p)
          IN  (r.status = HTTP_200_OK) =>
                  /\ login_user(r.users, e, p, now).status = HTTP_200_OK
                  /\ ResolvedId(login_user(r.users, e, p, now).token[1], now) = r.user[1].id
                  /\ \A p2 \in LoginPasswords \ {p} :
                        login_user(r.users, e, p2, now).status = HTTP_401_UNAUTHORIZED

--------------------------------------------------------------------------
(* Properties of ownership (SpecOwner) *)

(* C19: in every reachable state the owner of every stored task is the id
   of a stored user, whatever caller ids the creates were made with *)
C19_TaskOwnerExists ==
    \A r \in Rows(tasks) : \E u \in Rows(users) : u.id = r.user_id

(* a create with a caller id that no user has was refused, while tasks of
   registered users are stored *)
C19_Witness ==
    /\ resp.op = "make_task"
    /\ resp.status = HTTP_500_INTERNAL_SERVER_ERROR
    /\ get_user_by_id(users, resp.user_id) = None
    /\ tasks # <<>>

(* C18: the owner of a task never changes: in every step, a task that is
   new in the store was created by a create request and is owned by the
   caller of that request, and every task that stays in the store keeps its
   owner, whoever called and whatever the update body named *)
C18_OwnerImmutable ==
    [][\A r2 \in Rows(tasks') :
          IF Present(tasks, r2.id) = {}
          THEN resp'.op = "make_task" /\ r2.user_id = resp'.user_id
          ELSE \A r \in Present(tasks, r2.id) : r2.user_id = r.user_id]_vars

(* an update by the owner succeeded while another user is registered: the
   task it returns is changed and still the caller's *)
C18_Witness ==
    /\ resp.op = "change_task"
    /\ resp.status = HTTP_200_OK
    /\ resp.body[1].completed = Some(TRUE)
    /\ resp.body[1].user_id = resp.user_id
    /\ Len(users) = 2

--------------------------------------------------------------------------
(* Properties of tokens (SpecToken) *)

(* a token that must not resolve: signed with another key, expired, or
   without a subject *)
BadToken(token, time) ==
    \/ token.key # SECRET_KEY
    \/ token.exp < time
    \/ token.sub = None
    \/ token.sub = Some("")

(* C16: at every time, a token issued for a subject S resolves to S; a token
   signed with another secret, one whose expiry is past and one with no or
   an empty subject fail to resolve; the token a login has just issued
   resolves to the id of the user who logged in, and resolving a caller
   from a token that must not resolve has answered 401 *)
C16_TokenRoundTrip ==
    /\ \A S \in SubInputs \ {""} :
          decode_access_token(create_access_token(S, now), now) = [error |-> FALSE, sub |-> S]
    /\ \A k \in TokenInputs(now) \cup HeldTokens(now) :
          BadToken(k, now) => decode_access_token(k, now).error
    /\ (resp.op = "login_user" /\ resp.status = HTTP_200_OK) =>
          decode_access_token(resp.token[1], now) = [error |-> FALSE, sub |-> str(resp.user_id)]
    /\ (resp.op = "get_user_from_token" /\ BadToken(resp.token[1], now)) =>
          resp.status = HTTP_401_UNAUTHORIZED

(* resolving a caller from a token signed with the server's key, not
   expired, but without a subject was refused while a user is stored *)
C16_Witness ==
    /\ resp.op = "get_user_from_token"
    /\ resp.status = HTTP_401_UNAUTHORIZED
    /\ resp.token[1].key = SECRET_KEY
    /\ resp.token[1].exp >= now
    /\ resp.token[1].sub = None
    /\ users # <<>>

(* C17: a token issued at time t carries the expiry t + the configured
   lifetime; in every state reached by any operations it resolves to its
   subject while the clock is before that expiry and fails to resolve once
   the clock is after it; resolving the caller from a token a login issued
   for a stored user succeeds before the expiry and answers 401 after it *)
C17_TokenExpiresAfterLifetime ==
    /\ \A S \in SubInputs \ {""}, t \in 0 .. now :
          LET k == create_access_token(S, t)
          IN  /\ k.exp = t + ACCESS_TOKEN_EXPIRE_MINUTES
              /\ (now < k.exp) => decode_access_token(k, now) = [error |-> FALSE, sub |-> S]
              /\ (now > k.exp) => decode_access_token(k, now).error
    /\ (resp.op = "login_user" /\ resp.status = HTTP_200_OK) =>
          resp.token[1].exp = now + ACCESS_TOKEN_EXPIRE_MINUTES
    /\ (resp.op = "get_user_from_token" /\ resp.token[1] \in HeldTokens(now)
           /\ get_user_by_id(users, int(resp.token[1].sub[1])[1]) # None) =>
          /\ (now < resp.token[1].exp) => resp.status = HTTP_200_OK
          /\ (now > resp.token[1].exp) => resp.status = HTTP_401_UNAUTHORIZED

(* the token a login issued at time 0 for a stored user was refused after
   its lifetime had passed *)
C17_Witness ==
    /\ resp.op = "get_user_from_token"
    /\ resp.status = HTTP_401_UNAUTHORIZED
    /\ resp.token[1] \in HeldTokens(now)
    /\ resp.token[1].exp = ACCESS_TOKEN_EXPIRE_MINUTES
    /\ now > ACCESS_TOKEN_EXPIRE_MINUTES
    /\ get_user_by_id(users, int(resp.token[1].sub[1])[1]) # None

--------------------------------------------------------------------------
(* Properties of the user routes (SpecUser) *)

(* C21: what register, getById and listAll answer with at the API boundary
   holds the id and the email of stored users and nothing else, no digest:
   for every stored user as the response model renders it, and for every
   user in the response just served *)
C21_DigestNotExposed ==
    /\ \A u \in Rows(users) : DOMAIN UserRead(u) = {"id", "email"}
    /\ (resp.op \in UserRouteOps) =>
          \A i \in 1 .. Len(resp.body) :
              /\ DOMAIN resp.body[i] = {"id", "email"}
              /\ \E u \in Rows(users) :
                    u.id = resp.body[i].id /\ u.email = resp.body[i].email

(* listAll answered with both registered users *)
C21_Witness ==
    /\ resp.op = "get_all_users"
    /\ resp.status = HTTP_200_OK
    /\ Len(resp.body) = 2
    /\ \A u \in Rows(users) : "hashed_password" \in DOMAIN u

(* the ids of the first n users in insertion order, and of those after the
   first k of them: ids are handed out in the order of the inserts *)
FirstUsers(U, n) ==
    {u.id : u \in {x \in Rows(U) : Cardinality({y \in Rows(U) : y.id < x.id}) < n}}

(* C22: in every store state listAll(skip, limit) succeeds for every skip
   and limit from 0 on and returns, in insertion order, the users after the
   first skip, at most limit of them, whoever owns what; listAll(0, k) and
   listAll(k, k) have no id in common; on an empty store the answer is a
   success with an empty list *)
C22_ListAllUsersWindow ==
    /\ \A s \in 0 .. MaxSkip, l \in 0 .. MaxLimit :
          LET o == get_all_users_service(users, s, l)
          IN  /\ o.status = HTTP_200_OK
              /\ Len(o.users) = Min(l, IF Len(users) > s THEN Len(users) - s ELSE 0)
              /\ Ids(o.users) = FirstUsers(users, s + l) \ FirstUsers(users, s)
              /\ \A i, j \in 1 .. Len(o.users) : i < j => o.users[i].id < o.users[j].id
    /\ \A k \in 1 .. MaxLimit :
          Ids(get_all_users_service(users, 0, k).users)
              \cap Ids(get_all_users_service(users, k, k).users) = {}
    /\ (users = <<>>) =>
          get_all_users_service(users, 0, MaxLimit) = [status |-> HTTP_200_OK, users |-> <<>>]
    /\ (resp.op = "get_all_users" /\ users = <<>> /\ resp.status # HTTP_500_INTERNAL_SERVER_ERROR) =>
          resp.status = HTTP_200_OK /\ resp.body = <<>>

(* listAll skipped the first of two users and answered with the second *)
C22_Witness ==
    /\ resp.op = "get_all_users"
    /\ resp.status = HTTP_200_OK
    /\ Len(users) = 2
    /\ Len(resp.body) = 1
    /\ resp.body[1].id = users[2].id

--------------------------------------------------------------------------
(* Properties of password hashing (SpecLogin) *)

(* C23: for all passwords P and P2 different from P, and the salts two
   calls of hash draw: verify(P, hash(P)) is true, verify(P, hash(P2)) is
   false, and two calls of hash(P) give different digests that both verify
   P; so for the digests of the stored users *)
C23_HashVerifyLaw ==
    /\ \A P \in LoginPasswords : \A P2 \in LoginPasswords \ {P} :
          /\ verify_password(P, get_password_hash(P, salt_seq))
          /\ ~verify_password(P, get_password_hash(P2, salt_seq))
          /\ get_password_hash(P, salt_seq) # get_password_hash(P, salt_seq + 1)
          /\ verify_password(P, get_password_hash(P, salt_seq + 1))
    /\ \A u \in Rows(users) :
          Cardinality({P \in LoginPasswords : verify_password(P, u.hashed_password)}) = 1

(* C30: a login that fails gives the same outcome, 401 with the detail
   'Incorrect email or password', for an email that is not registered and
   for a registered email with a wrong password *)
C30_LoginFailureUniform ==
    /\ \A e \in Emails, p \in LoginPasswords :
          LET o == login_user(users, e, p, now)
          IN  (o.status # HTTP_200_OK) =>
                  o = [status |-> HTTP_401_UNAUTHORIZED,
                       detail |-> "Incorrect email or password",
                       user_id |-> 0, token |-> None]
    /\ \A e1 \in Emails, e2 \in Emails, p1 \in LoginPasswords, p2 \in LoginPasswords :
          (/\ get_user_by_email(users, e1) = None
           /\ get_user_by_email(users, e2) # None
           /\ ~verify_password(p2, get_user_by_email(users, e2)[1].hashed_password)) =>
              login_user(users, e1, p1, now) = login_user(users, e2, p2, now)
    /\ (resp.op = "login_user" /\ resp.status # HTTP_200_OK) =>
          /\ resp.status = HTTP_401_UNAUTHORIZED
          /\ resp.body = <<[detail |-> "Incorrect email or password"]>>
          /\ resp.user_id = 0 /\ resp.token = None

(* a login was refused while one email is registered and the other is not *)
C30_Witness ==
    /\ resp.op = "login_user"
    /\ resp.status = HTTP_401_UNAUTHORIZED
    /\ \E e \in Emails : get_user_by_email(users, e) = None
    /\ \E e \in Emails : get_user_by_email(users, e) # None

--------------------------------------------------------------------------
(* Properties of requests served at once (SpecRace, SpecRegister) *)

(* C24: two updates of one task by its owner served at once both succeed
   and the last to commit wins: a commit of an update whose task is still
   stored is not rejected and leaves every field its payload names with
   the payload's value, and its refresh then answers with success *)
C24_LastWriteWins ==
    [][\A q \in Requests :
          LET t == inflight[q].task
          IN  /\ (inflight[q].op = "update_task" /\ inflight'[q].op # "update_task"
                      /\ get_task(tasks, t.id) # None) =>
                    /\ inflight'[q].op = "refresh"
                    /\ get_task(tasks', t.id) # None
                    /\ \A f \in DOMAIN inflight[q].updates :
                          get_task(tasks', t.id)[1][f] = inflight[q].updates[f]
              /\ (inflight[q].op = "refresh" /\ inflight'[q].op = "idle"
                      /\ get_task(tasks, t.id) # None) =>
                    resp'.status = HTTP_200_OK]_vars

(* C26: of two register requests for one unregistered email served at
   once, one succeeds and the other ends in Conflict (400) and in no other
   error: every register request ends in success or in 400, and no email
   is stored twice *)
C26_ConcurrentRegisterConflict ==
    /\ (resp.op = "register_user") => resp.status \in {HTTP_200_OK, HTTP_400_BAD_REQUEST}
    /\ \A i, j \in 1 .. Len(users) : users[i].email = users[j].email => i = j

(* C27: an update and a delete, or two deletes, of one task by its owner
   served at once each end in success or in NotFound, and a task that was
   deleted is not stored again *)
C27_ConcurrentDeleteOutcome ==
    [][/\ (resp'.op \in {"change_task", "remove_task"}) =>
              resp'.status \in {HTTP_200_OK, HTTP_404_NOT_FOUND}
       /\ \A t \in 1 .. (task_id_seq - 1) :
              get_task(tasks, t) = None => get_task(tasks', t) = None]_vars

--------------------------------------------------------------------------
(* Properties of the store as a whole (SpecFrame, Spec) *)

ReadOps == {"get_existing_task", "list_user_tasks", "get_user_by_id_service",
            "get_all_users", "login_user", "get_user_from_token"}

FailureStatuses == {HTTP_400_BAD_REQUEST, HTTP_401_UNAUTHORIZED, HTTP_403_FORBIDDEN,
                    HTTP_404_NOT_FOUND}

(* C25: get, list, getById, listAll, authenticate and token resolution,
   and every operation that ends in Conflict, Unauthorized, Forbidden,
   NotFound or EmptyCollection, leave the users and the tasks as they were *)
C25_StoreFrame ==
    [][(resp'.op \in ReadOps \/ resp'.status \in FailureStatuses) =>
          (users' = users /\ tasks' = tasks)]_vars

(* a delete by a caller who is not the owner was refused, the store
   holding a task *)
C25_Witness ==
    /\ resp.op = "remove_task"
    /\ resp.status = HTTP_403_FORBIDDEN
    /\ get_task(tasks, resp.task_id) # None

TaskOps == {"list_user_tasks", "get_existing_task", "make_task", "change_task",
            "remove_task"}

(* what user b gets from list, for every window, and from get on each of
   b's own tasks *)
ResultsOf(T, seq, b) ==
    [list |-> [s \in 0 .. MaxSkip, l \in 0 .. MaxLimit |->
                  LET o == list_user_tasks(T, seq, b, s, l)
                  IN  <<o.status, o.body>>],
     get |-> [t \in Ids(OwnedBy(T, b)) |->
                  LET o == get_existing_task(T, seq, b, t)
                  IN  <<o.status, o.body>>]]

(* C28: a task operation with caller A leaves, for every other user B, the
   set of B's tasks and their fields as they were, and B's results from list
   and from get on B's own tasks the same as without the operation *)
C28_Noninterference ==
    [][\A b \in UserIdInputs :
          (/\ resp'.op \in TaskOps
           /\ resp'.user_id # b
           /\ <<tasks', task_id_seq'>> # <<tasks, task_id_seq>>) =>
              /\ OwnedBy(tasks', b) = OwnedBy(tasks, b)
              /\ ResultsOf(tasks', task_id_seq', b) = ResultsOf(tasks, task_id_seq, b)]_vars

(* a user has updated an own task while the store holds another user's *)
C28_Witness ==
    /\ resp.op = "change_task"
    /\ resp.status = HTTP_200_OK
    /\ resp.body # None
    /\ resp.body[1].user_id = resp.user_id
    /\ \E r \in Rows(tasks) : r.user_id # resp.user_id
    /\ tasks[Len(tasks)].id = resp.task_id /\ tasks[Len(tasks)].id < tasks[1].id

--------------------------------------------------------------------------
(* Properties of update (SpecUpdate, SpecTime) *)

(* C6: a successful update(c, t, partialFields) gives each field the payload
   names the payload's value and leaves every other field, the id and the
   owner as they were; the row it returns is the row stored, and the other
   rows are untouched *)
C6_PartialUpdateFrame ==
    \A r \in Rows(tasks), u \in TaskUpdate :
        \A o \in change_task(tasks, task_id_seq, r.user_id, r.id, u, now) :
            (o.status = HTTP_200_OK) =>
                /\ Len(o.body) = 1
                /\ get_task(o.tasks, r.id) = o.body
                /\ o.body[1].id = r.id
                /\ o.body[1].user_id = r.user_id
                /\ \A f \in TaskFields :
                      o.body[1][f] = IF f \in DOMAIN u THEN u[f] ELSE r[f]
                /\ \A x \in Rows(tasks) : x.id # r.id => x \in Rows(o.tasks)
                /\ Len(o.tasks) = Len(tasks)

(* an update of completed alone succeeded on a task that has a description
   and a due date: they and the title are still there *)
C6_Witness ==
    /\ resp.op = "change_task"
    /\ resp.status = HTTP_200_OK
    /\ resp.body[1].completed = Some(TRUE)
    /\ resp.body[1].title = Some("T1")
    /\ resp.body[1].description = Some("d1")
    /\ resp.body[1].due_date = Some("2025-01-01")

(* an update payload that names title or completed with the value None *)
SetsNull(u) ==
    \/ ("title" \in DOMAIN u /\ u.title = None)
    \/ ("completed" \in DOMAIN u /\ u.completed = None)

(* C29: every stored task has a title and a boolean completed flag; an
   update whose payload sets title or completed to null stores no task
   without them and leaves the stored tasks as they were *)
C29_TitleCompletedNotNull ==
    /\ \A r \in Rows(tasks) :
          r.title \in {Some(t) : t \in Titles} /\ r.completed \in {Some(TRUE), Some(FALSE)}
    /\ \A r \in Rows(tasks), u \in {v \in TaskUpdate : SetsNull(v)} :
          \A o \in change_task(tasks, task_id_seq, r.user_id, r.id, u, now) :
              o.status # HTTP_200_OK /\ o.tasks = tasks

(* the owner's update was refused with the task stored; in SpecUpdate only
   a null title or completed makes change_task fail for a stored own task *)
C29_Witness ==
    /\ resp.op = "change_task"
    /\ resp.status = HTTP_500_INTERNAL_SERVER_ERROR
    /\ \E r \in Rows(tasks) : r.id = resp.task_id /\ r.user_id = resp.user_id

(* C7: every successful update, whatever the payload, leaves the task with
   updated_at equal to the time of the update *)
C7_UpdateAlwaysRefreshes ==
    (resp.op = "change_task" /\ resp.status = HTTP_200_OK) =>
        /\ resp.body[1].updated_at = now
        /\ \A r \in Rows(tasks) : r.id = resp.task_id => r.updated_at = now

--------------------------------------------------------------------------
(* Properties of paging (SpecPage) *)

(* the ids of the first n tasks of user c in insertion order: ids are handed
   out in the order of the inserts *)
FirstInserted(T, c, n) ==
    {r.id : r \in {x \in Rows(T) : x.user_id = c /\
                      Cardinality({y \in Rows(T) : y.user_id = c /\ y.id < x.id}) < n}}

(* C11: in every store state, for every user c and every k >= 1, the ids of
   list(c, 0, k) and of list(c, k, k) (a list that fails for want of rows
   has no ids) are disjoint and together are the ids of the first
   min(N, 2k) tasks of c in insertion order *)
C11_PaginationLaw ==
    \A c \in UserIdInputs, k \in 1 .. MaxLimit :
        LET a == Ids(list_user_tasks(tasks, task_id_seq, c, 0, k).body)
            b == Ids(list_user_tasks(tasks, task_id_seq, c, k, k).body)
        IN  /\ a \cap b = {}
            /\ a \cup b = FirstInserted(tasks, c, 2 * k)

--------------------------------------------------------------------------
(* Properties of the task routes (SpecAuth) *)

(* the user a token names: its subject, when the token decodes and the
   subject is the id of a stored user *)
TokenUser(U, token, time) ==
    LET d == decode_access_token(token, time)
    IN  IF d.error \/ int(d.sub) = None THEN None
        ELSE get_user_by_id(U, int(d.sub)[1])

(* C4: a task route called with a valid token of an existing user U runs its
   service with caller id U; POST /tasks/ answers 201 with a task owned by U *)
C4_RouteActsAsTokenSubject ==
    (resp.op \in RouteOps /\ TokenUser(users, resp.token[1], now) # None) =>
        /\ resp.user_id = TokenUser(users, resp.token[1], now)[1].id
        /\ (resp.op = "create_new_task") =>
              /\ resp.status = HTTP_201_CREATED
              /\ resp.body[1].user_id = resp.user_id

(* C5: with a token that does not decode (bad signature, expired, no
   subject) or whose subject is not the id of a stored user, resolving the
   caller answers 401 and no task service runs for the request *)
C5_BadTokenIsUnauthorized ==
    (resp.op \in RouteOps \cup {"get_user_from_token"}
        /\ TokenUser(users, resp.token[1], now) = None) =>
        /\ resp.status = HTTP_401_UNAUTHORIZED
        /\ resp.user_id = 0

(* the error outcomes the services give in a store, each with the error kind
   that applies to the request and the HTTP status it ends in *)
ErrorOutcomes(U, T, useq, tseq, salt, time) ==
    {<<"Conflict", register_user(U, useq, salt, e, p).status>> :
        e \in {x \in Emails : get_user_by_email(U, x) # None}, p \in Passwords}
    \cup {<<"Unauthorized", login_user(U, ep[1], ep[2], time).status>> :
        ep \in {x \in Emails \X (Passwords \cup WrongPasswords) :
                    authenticate_user(U, x[1], x[2]) = None}}
    \cup {<<"Unauthorized", get_user_from_token(U, k, time).status>> :
        k \in {x \in TokenInputs(time) : TokenUser(U, x, time) = None}}
    \cup {<<"NotFound", get_user_by_id_service(U, c).status>> :
        c \in {x \in UserIdInputs : get_user_by_id(U, x) = None}}
    \cup {<<"NotFound", get_existing_task(T, tseq, ct[1], ct[2]).status>> :
        ct \in {x \in UserIdInputs \X TaskIdInputs : Present(T, x[2]) = {}}}
    \cup {<<"Forbidden", get_existing_task(T, tseq, ct[1], ct[2]).status>> :
        ct \in {x \in UserIdInputs \X TaskIdInputs :
                    \E r \in Present(T, x[2]) : r.user_id # x[1]}}
    \cup {<<"EmptyCollection", list_user_tasks(T, tseq, csl[1], csl[2], csl[3]).status>> :
        csl \in {x \in UserIdInputs \X (0 .. MaxSkip) \X (0 .. MaxLimit) :
                     Len(OwnedBy(T, x[1])) <= x[2] \/ x[3] = 0}}

(* C20: every error outcome has the one HTTP status of its kind: two error
   outcomes of the same kind end in the same status and two of different
   kinds (Conflict, Unauthorized, Forbidden, NotFound, EmptyCollection) in
   different statuses; at the API boundary a task route called by a stored
   user ends in 404 for a task id that is not stored and in 403 for a task
   of another user *)
C20_ErrorKindsOneToOne ==
    /\ \A x, y \in ErrorOutcomes(users, tasks, user_id_seq, task_id_seq, salt_seq, now) :
          (x[1] = y[1]) <=> (x[2] = y[2])
    /\ (resp.op \in {"read_task", "update_existing_task", "delete_existing_task"}
           /\ TokenUser(users, resp.token[1], now) # None) =>
          /\ (Present(tasks, resp.task_id) = {}) => resp.status = HTTP_404_NOT_FOUND
          /\ (\E r \in Present(tasks, resp.task_id) :
                  r.user_id # TokenUser(users, resp.token[1], now)[1].id) =>
                resp.status = HTTP_403_FORBIDDEN

====
